---- MODULE Spec2Model ----
(***************************************************************************)
(* Model of lib/charms/vault_k8s/v0/vault_client.py: the Vault class, a    *)
(* synchronous wrapper around an hvac client bound to one Vault cluster.   *)
(*                                                                         *)
(* The wrapper holds no state besides the client and its token; the state  *)
(* of the model is the state of the cluster the client talks to, plus the  *)
(* record of the wrapper call in hand: its arguments, the cluster before   *)
(* it, what the underlying client calls raised, and what the wrapper       *)
(* returned or raised to its caller.  The caller is synchronous: it makes  *)
(* a call, takes its outcome (Done) and only then makes the next one.      *)
(*                                                                         *)
(* Every underlying client call may fail: the environment picks, for each  *)
(* call, either "none" (the cluster answers according to its state) or one *)
(* of the exception kinds the library imports.  A call that fails this way *)
(* has no effect on the cluster.                                           *)
(***************************************************************************)
EXTENDS Integers, Sequences, FiniteSets, TLC

\* ---------------------------------------------------------------- bounds
\* largest secret_shares / secret_threshold passed to initialize
MaxShares == 2
\* longest unseal_keys list passed to unseal
MaxKeys == 2

\* ------------------------------------------------------------ exceptions
\* The exception classes the library imports; "VaultError" stands for any
\* hvac error that is neither InvalidRequest nor InvalidPath (Forbidden,
\* InternalServerError, VaultDown, ...).
ErrorKinds == {"InvalidRequest", "InvalidPath", "VaultError", "RequestException"}

\* what the environment does to one underlying call
Faults == {"none"} \cup ErrorKinds

\* Python's `except (A, B)`: InvalidRequest and InvalidPath derive from
\* VaultError, RequestException is unrelated to them.
IsInstance(kind, class) ==
    \/ kind = class
    \/ class = "VaultError" /\ kind \in {"InvalidRequest", "InvalidPath"}

Catches(classes, kind) == \E c \in classes : IsInstance(kind, c)

\* An exception object: its kind, the index (1, 2, ...) of the underlying
\* call of the current wrapper call that raised it, and where it comes from:
\* "cluster" when the cluster rejected the request because of its state,
\* "env" when the environment failed the call.
Err(kind, at, origin) == [kind |-> kind, at |-> at, origin |-> origin]
NoErr == [kind |-> "none", at |-> 0, origin |-> "none"]

\* the exception of the at-th underlying call under fault f, when the cluster
\* itself would answer with rejection `own` ("none" when it accepts)
Outcome(f, own, at) ==
    IF f # "none" THEN Err(f, at, "env")
    ELSE IF own # "none" THEN Err(own, at, "cluster")
    ELSE NoErr

\* ------------------------------------------------------------- the values
SecretsBackend == {"kv-v2", "pki"}
AuditDeviceType == {"file", "syslog", "socket"}
Paths == {"p1", "p2"}
Roles == {"r1", "r2"}
Certs == {"c1", "c2"}
NodeIds == {"a", "b", "c", "d"}
\* key 0 is a malformed key; key k >= 1 is the k-th share of an initialization
Keys == 0..MaxShares
KeyLists == UNION {[1..n -> Keys] : n \in 0..MaxKeys}

VARIABLES
    vault,        \* lifecycle: [state, shares, threshold, progress]
    mounts,       \* secrets engines: path -> backend type or "none"
    authMethods,  \* enabled auth method types
    auditDevices, \* audit devices: device type -> file path or "none"
    pkiRoles,     \* PKI roles: set of <<mount, role>>
    peers,        \* raft configuration: sequence of node ids, no duplicates
    clientToken,  \* how the client is authenticated: "none", "token", "approle"
    last          \* the wrapper call in hand, Idle between calls

cluster == <<vault, mounts, authMethods, auditDevices, pkiRoles, peers>>
vars == <<vault, mounts, authMethods, auditDevices, pkiRoles, peers, clientToken, last>>

\* the record of one wrapper call: `before` is the cluster when the call was
\* made, `raised` the exception the caller gets (NoErr when the call
\* returns), `ret` the value returned, `errs` the exceptions the underlying
\* client calls raised, in order, and `seen` what a query inside the call
\* answered.
Call(op, arg, ret, raised, errs, seen) ==
    [op |-> op, arg |-> arg, before |-> cluster, ret |-> ret, raised |-> raised,
     errs |-> errs, seen |-> seen]

Returned(op, arg, ret, errs) == Call(op, arg, ret, NoErr, errs, "none")
Raised(op, arg, e, errs) == Call(op, arg, "none", e, errs, "none")

Idle == [op |-> "idle", arg |-> "none", before |-> "none", ret |-> "none",
         raised |-> NoErr, errs |-> <<>>, seen |-> "none"]

\* one underlying call wrapped in `try ... except classes: return fallback`
\* (classes = {} when the method has no try): e is what the call raised.
Handle(op, arg, e, value, classes, fallback) ==
    IF e = NoErr THEN Returned(op, arg, value, <<>>)
    ELSE IF Catches(classes, e.kind) THEN Returned(op, arg, fallback, <<e>>)
    ELSE Raised(op, arg, e, <<e>>)

\* the caller takes the outcome of the call in hand
Done ==
    /\ last.op # "idle"
    /\ last' = Idle
    /\ UNCHANGED <<cluster, clientToken>>

\* ------------------------------------------------- the cluster: lifecycle
Uninitialized == [state |-> "UNINITIALIZED", shares |-> 0, threshold |-> 0, progress |-> {}]

IsUnsealed(v) == v.state \in {"UNSEALED_STANDBY", "UNSEALED_ACTIVE"}

\* sys.initialize: accepted once, with 1 <= threshold <= shares; hands out
\* the root token and one key per share and leaves the cluster sealed.
sys_initialize_rejection(v, shares, threshold) ==
    IF v.state # "UNINITIALIZED" \/ ~(1 <= threshold /\ threshold <= shares)
    THEN "InvalidRequest" ELSE "none"

sys_initialize_effect(v, shares, threshold) ==
    [state |-> "SEALED", shares |-> shares, threshold |-> threshold, progress |-> {}]

sys_initialize_response(shares) ==
    [root_token |-> "root", keys |-> [i \in 1..shares |-> i]]

sys_is_initialized(v) == v.state # "UNINITIALIZED"

sys_is_sealed(v) == ~IsUnsealed(v)

\* sys.submit_unseal_key: a malformed key, a key that is no share of this
\* initialization, or any key before initialization is rejected; a share
\* submitted to a sealed cluster adds to the progress, and the cluster
\* unseals when `threshold` distinct shares are in; a share submitted to an
\* unsealed cluster changes nothing.
submit_unseal_key_rejection(v, key) ==
    IF v.state = "UNINITIALIZED" \/ key \notin 1..v.shares
    THEN "InvalidRequest" ELSE "none"

submit_unseal_key_effect(v, key) ==
    IF v.state # "SEALED" THEN v
    ELSE IF Cardinality(v.progress \cup {key}) >= v.threshold
         THEN [v EXCEPT !.state = "UNSEALED_STANDBY", !.progress = {}]
         ELSE [v EXCEPT !.progress = v.progress \cup {key}]

\* the status code of the health endpoint; with standby_ok a standby node
\* answers like the active one.  The request does not raise on a non-200
\* code.
read_health_status(v, standby_ok) ==
    CASE v.state = "UNINITIALIZED" -> 501
      [] v.state = "SEALED" -> 503
      [] v.state = "UNSEALED_STANDBY" -> IF standby_ok THEN 200 ELSE 429
      [] v.state = "UNSEALED_ACTIVE" -> 200

\* a sealed or uninitialized cluster refuses every request but the
\* lifecycle ones
ServingRejection(v) == IF IsUnsealed(v) THEN "none" ELSE "VaultError"

\* leader election: not driven by the wrapper
LeaderElection ==
    /\ last.op = "idle"
    /\ vault.state = "UNSEALED_STANDBY"
    /\ vault' = [vault EXCEPT !.state = "UNSEALED_ACTIVE"]
    /\ UNCHANGED <<mounts, authMethods, auditDevices, pkiRoles, peers, clientToken, last>>

\* ------------------------------------------------- the wrapper: lifecycle
\* standby_ok=True of both health queries
StandbyOkOff == FALSE

StandbyOk == TRUE

is_api_available_except == {"VaultError", "RequestException"}

is_api_available ==
    /\ last.op = "idle"
    /\ \E f \in Faults :
        last' = Handle("is_api_available", "none", Outcome(f, "none", 1),
                       TRUE, is_api_available_except, FALSE)
    /\ UNCHANGED <<cluster, clientToken>>

initialize_except_swallowing == {"InvalidRequest"}

initialize_except == {}

initialize ==
    /\ last.op = "idle"
    /\ \E secret_shares \in 1..MaxShares, secret_threshold \in 1..MaxShares, f \in Faults :
        LET arg == <<secret_shares, secret_threshold>>
            e == Outcome(f, sys_initialize_rejection(vault, secret_shares, secret_threshold), 1)
            response == sys_initialize_response(secret_shares)
        IN  /\ vault' = IF e = NoErr
                        THEN sys_initialize_effect(vault, secret_shares, secret_threshold)
                        ELSE vault
            /\ last' = Handle("initialize", arg, e,
                              <<response.root_token, response.keys>>,
                              initialize_except, "none")
    /\ UNCHANGED <<mounts, authMethods, auditDevices, pkiRoles, peers, clientToken>>

is_initialized ==
    /\ last.op = "idle"
    /\ \E f \in Faults :
        last' = Handle("is_initialized", "none", Outcome(f, "none", 1),
                       sys_is_initialized(vault), {}, "none")
    /\ UNCHANGED <<cluster, clientToken>>

\* the for loop of unseal: submits keys[i], keys[i+1], ... to the cluster v,
\* stopping at the first submission that raises.  The environment fails the
\* faultAt-th submission with `kind` (faultAt = 0: none).  Gives the cluster
\* afterwards, the exception (NoErr when every key went in) and the keys
\* submitted, in the order of submission.
\* the loop with a `break` after its first iteration
SubmitKeysFirstOnly(v, keys, i, faultAt, kind, sent) ==
    IF i > Len(keys) THEN [vault |-> v, err |-> NoErr, sent |-> sent]
    ELSE LET e == Outcome(IF i = faultAt THEN kind ELSE "none",
                          submit_unseal_key_rejection(v, keys[i]), i)
         IN  [vault |-> IF e # NoErr THEN v ELSE submit_unseal_key_effect(v, keys[i]),
              err |-> e, sent |-> Append(sent, keys[i])]

RECURSIVE SubmitKeys(_, _, _, _, _, _)
SubmitKeys(v, keys, i, faultAt, kind, sent) ==
    IF i > Len(keys) THEN [vault |-> v, err |-> NoErr, sent |-> sent]
    ELSE LET e == Outcome(IF i = faultAt THEN kind ELSE "none",
                          submit_unseal_key_rejection(v, keys[i]), i)
         IN  IF e # NoErr
             THEN [vault |-> v, err |-> e, sent |-> Append(sent, keys[i])]
             ELSE SubmitKeys(submit_unseal_key_effect(v, keys[i]), keys, i + 1,
                             faultAt, kind, Append(sent, keys[i]))

unseal_except == {"InvalidRequest"}

\* the handler without its `raise e`
unseal_never_reraises(sealed) == FALSE

\* `if self._client.sys.is_sealed(): raise e`
unseal_reraises(sealed) == sealed

unseal ==
    /\ last.op = "idle"
    /\ \E unseal_keys \in KeyLists :
       \E faultAt \in 0..Len(unseal_keys) :
       \E kind \in (IF faultAt = 0 THEN {"RequestException"} ELSE ErrorKinds) :
        LET r == SubmitKeys(vault, unseal_keys, 1, faultAt, kind, <<>>)
            caught == r.err # NoErr /\ Catches(unseal_except, r.err.kind)
            sealed == sys_is_sealed(r.vault)
        IN  \E qf \in (IF caught THEN Faults ELSE {"none"}) :
            LET q == Outcome(qf, "none", Len(r.sent) + 1)
            IN  /\ vault' = r.vault
                /\ last' =
                     IF r.err = NoErr
                     THEN Call("unseal", unseal_keys, r.sent, NoErr, <<>>, "none")
                     ELSE IF ~caught
                     THEN Call("unseal", unseal_keys, r.sent, r.err, <<r.err>>, "none")
                     ELSE IF q # NoErr
                     THEN Call("unseal", unseal_keys, r.sent, q, <<r.err, q>>, "failed")
                     ELSE IF unseal_reraises(sealed)
                     THEN Call("unseal", unseal_keys, r.sent, r.err, <<r.err>>,
                               IF sealed THEN "sealed" ELSE "unsealed")
                     ELSE Call("unseal", unseal_keys, r.sent, NoErr, <<r.err>>,
                               IF sealed THEN "sealed" ELSE "unsealed")
    /\ UNCHANGED <<mounts, authMethods, auditDevices, pkiRoles, peers, clientToken>>

is_active_except_narrow == {"VaultError"}

is_active_except == {"VaultError", "RequestException"}

is_active ==
    /\ last.op = "idle"
    /\ \E f \in Faults :
        last' = Handle("is_active", "none", Outcome(f, "none", 1),
                       read_health_status(vault, StandbyOk) = 200,
                       is_active_except, FALSE)
    /\ UNCHANGED <<cluster, clientToken>>

\* ------------------------------------------- the cluster: administration
\* what a serving cluster answers with `own`, a sealed one refuses
Reject(v, own) == IF ServingRejection(v) # "none" THEN ServingRejection(v) ELSE own

\* an audit device mounts at the path named after its type; enabling a
\* device where one is mounted is rejected
sys_enable_audit_device_rejection(v, devices, device_type) ==
    Reject(v, IF devices[device_type] # "none" THEN "InvalidRequest" ELSE "none")

sys_enable_audit_device_effect(devices, device_type, file_path) ==
    [devices EXCEPT ![device_type] = file_path]

\* an auth method mounts at the path named after its type
sys_enable_auth_method_rejection(v, methods, method_type) ==
    Reject(v, IF method_type \in methods THEN "InvalidRequest" ELSE "none")

\* a secrets engine mounts at `path`; a path in use is rejected
sys_enable_secrets_engine_rejection(v, m, path) ==
    Reject(v, IF m[path] # "none" THEN "InvalidRequest" ELSE "none")

sys_enable_secrets_engine_effect(m, backend_type, path) ==
    [m EXCEPT ![path] = backend_type]

\* PKI roles live under a PKI mount
pki_create_or_update_role_rejection(v, m, mount) ==
    Reject(v, IF m[mount] # "pki" THEN "InvalidPath" ELSE "none")

\* listing the roles of a mount that has none is a path not found
pki_list_roles_keys(roles, mount) == {r \in Roles : <<mount, r>> \in roles}

pki_list_roles_rejection(v, roles, mount) ==
    Reject(v, IF pki_list_roles_keys(roles, mount) = {} THEN "InvalidPath" ELSE "none")

\* signing is rejected when the role does not exist or the CSR does not meet
\* the role's constraints
pki_sign_certificate_rejection(v, roles, mount, role, csrMeetsRole) ==
    Reject(v, IF <<mount, role>> \notin roles \/ ~csrMeetsRole
              THEN "InvalidRequest" ELSE "none")

\* ------------------------------------------------ the cluster: raft peers
sys_read_raft_config(p) == [i \in 1..Len(p) |-> [node_id |-> p[i]]]

\* removing a server that is no peer succeeds and changes nothing
sys_remove_raft_node_effect(p, server_id) ==
    LET Keep(n) == n # server_id IN SelectSeq(p, Keep)

\* --------------------------------------------- the wrapper: authentication
\* Token.login sets the client token and makes no request; AppRole.login
\* logs in with use_token=True.
authenticate ==
    /\ last.op = "idle"
    /\ \E auth_details \in {"Token", "AppRole"}, f \in Faults :
        IF auth_details = "Token"
        THEN /\ f = "none"
             /\ clientToken' = "token"
             /\ last' = Returned("authenticate", auth_details, "none", <<>>)
        ELSE LET e == Outcome(f, ServingRejection(vault), 1)
             IN  /\ clientToken' = IF e = NoErr THEN "approle" ELSE clientToken
                 /\ last' = Handle("authenticate", auth_details, e, "none", {}, "none")
    /\ UNCHANGED cluster

\* a method that makes one request, has no try and leaves the modelled part
\* of the cluster alone
Request(op, arg, value) ==
    /\ last.op = "idle"
    /\ \E f \in Faults :
        last' = Handle(op, arg, Outcome(f, ServingRejection(vault), 1), value, {}, "none")
    /\ UNCHANGED <<cluster, clientToken>>

\* ------------------------------------------- the wrapper: access control
enable_audit_device_except == {"InvalidRequest"}

enable_audit_device ==
    /\ last.op = "idle"
    /\ \E device_type \in AuditDeviceType, path \in Paths, f \in Faults :
        LET e == Outcome(f, sys_enable_audit_device_rejection(vault, auditDevices, device_type), 1)
        IN  /\ auditDevices' = IF e = NoErr
                               THEN sys_enable_audit_device_effect(auditDevices, device_type, path)
                               ELSE auditDevices
            /\ last' = Handle("enable_audit_device", <<device_type, path>>, e, "none",
                              enable_audit_device_except, "none")
    /\ UNCHANGED <<vault, mounts, authMethods, pkiRoles, peers, clientToken>>

enable_approle_auth_method_except == {"InvalidRequest"}

enable_approle_auth_method ==
    /\ last.op = "idle"
    /\ \E f \in Faults :
        LET e == Outcome(f, sys_enable_auth_method_rejection(vault, authMethods, "approle"), 1)
        IN  /\ authMethods' = IF e = NoErr THEN authMethods \cup {"approle"} ELSE authMethods
            /\ last' = Handle("enable_approle_auth_method", "none", e, "none",
                              enable_approle_auth_method_except, "none")
    /\ UNCHANGED <<vault, mounts, auditDevices, pkiRoles, peers, clientToken>>

\* reads the policy file, then upserts the policy
configure_policy ==
    /\ last.op = "idle"
    /\ \E fileReadable \in BOOLEAN, f \in Faults :
        IF ~fileReadable
        THEN /\ f = "none"
             /\ last' = Raised("configure_policy", "none", Err("OSError", 0, "file"), <<>>)
        ELSE last' = Handle("configure_policy", "none",
                            Outcome(f, ServingRejection(vault), 1), "none", {}, "none")
    /\ UNCHANGED <<cluster, clientToken>>

\* upserts the role, then reads its role id
configure_approle ==
    /\ last.op = "idle"
    /\ \E f1 \in Faults :
        LET e1 == Outcome(f1, ServingRejection(vault), 1)
        IN  \E f2 \in (IF e1 = NoErr THEN Faults ELSE {"none"}) :
            last' = IF e1 # NoErr
                    THEN Raised("configure_approle", "none", e1, <<e1>>)
                    ELSE Handle("configure_approle", "none",
                                Outcome(f2, ServingRejection(vault), 2), "role_id", {}, "none")
    /\ UNCHANGED <<cluster, clientToken>>

generate_role_secret_id == Request("generate_role_secret_id", "none", "secret_id")

read_role_secret == Request("read_role_secret", "none", "data")

\* ----------------------------------------- the wrapper: secrets engines
enable_secrets_engine_except_none == {}

enable_secrets_engine_except == {"InvalidRequest"}

enable_secrets_engine ==
    /\ last.op = "idle"
    /\ \E backend_type \in SecretsBackend, path \in Paths, f \in Faults :
        LET e == Outcome(f, sys_enable_secrets_engine_rejection(vault, mounts, path), 1)
        IN  /\ mounts' = IF e = NoErr
                         THEN sys_enable_secrets_engine_effect(mounts, backend_type, path)
                         ELSE mounts
            /\ last' = Handle("enable_secrets_engine", <<backend_type, path>>, e, "none",
                              enable_secrets_engine_except, "none")
    /\ UNCHANGED <<vault, authMethods, auditDevices, pkiRoles, peers, clientToken>>

\* the CA certificate of a mount is whatever the cluster holds: the
\* environment picks it
is_intermediate_ca_set ==
    \E intermediate_ca \in Certs, certificate \in Certs :
        Request("is_intermediate_ca_set", certificate, intermediate_ca = certificate)

get_intermediate_ca ==
    \E intermediate_ca \in Certs : Request("get_intermediate_ca", "none", intermediate_ca)

generate_pki_intermediate_ca_csr == Request("generate_pki_intermediate_ca_csr", "none", "csr")

set_pki_intermediate_ca_certificate ==
    Request("set_pki_intermediate_ca_certificate", "none", "none")

sign_pki_certificate_signing_request_except_broad == {"VaultError"}

sign_pki_certificate_signing_request_except == {"InvalidRequest"}

sign_pki_certificate_signing_request ==
    /\ last.op = "idle"
    /\ \E mount \in Paths, role \in Roles, csrMeetsRole \in BOOLEAN, f \in Faults :
        LET e == Outcome(f, pki_sign_certificate_rejection(vault, pkiRoles, mount, role,
                                                           csrMeetsRole), 1)
        IN  last' = Handle("sign_pki_certificate_signing_request", <<mount, role>>, e,
                           [certificate |-> "cert", ca |-> "issuing_ca", chain |-> <<"ca_chain">>],
                           sign_pki_certificate_signing_request_except, "None")
    /\ UNCHANGED <<cluster, clientToken>>

is_pki_ca_certificate_set ==
    \E existing_certificate \in Certs, certificate \in Certs :
        Request("is_pki_ca_certificate_set", certificate, existing_certificate = certificate)

create_pki_charm_role ==
    /\ last.op = "idle"
    /\ \E role \in Roles, mount \in Paths, f \in Faults :
        LET e == Outcome(f, pki_create_or_update_role_rejection(vault, mounts, mount), 1)
        IN  /\ pkiRoles' = IF e = NoErr THEN pkiRoles \cup {<<mount, role>>} ELSE pkiRoles
            /\ last' = Handle("create_pki_charm_role", <<role, mount>>, e, "none", {}, "none")
    /\ UNCHANGED <<vault, mounts, authMethods, auditDevices, peers, clientToken>>

is_pki_role_created_except == {"InvalidPath"}

is_pki_role_created ==
    /\ last.op = "idle"
    /\ \E role \in Roles, mount \in Paths, f \in Faults :
        LET e == Outcome(f, pki_list_roles_rejection(vault, pkiRoles, mount), 1)
        IN  last' = Handle("is_pki_role_created", <<role, mount>>, e,
                           role \in pki_list_roles_keys(pkiRoles, mount),
                           is_pki_role_created_except, FALSE)
    /\ UNCHANGED <<cluster, clientToken>>

\* ------------------------------------------------ the wrapper: raft
\* a snapshot is an opaque blob: what it holds is not modelled
create_snapshot == Request("create_snapshot", "none", "response")

restore_snapshot == Request("restore_snapshot", "none", "response")

\* the autopilot state is the cluster's own judgement: the environment picks
\* it.  get_raft_cluster_state hands out the `data` of the response.
get_raft_cluster_state ==
    /\ last.op = "idle"
    /\ \E healthy \in BOOLEAN, f \in Faults :
        LET data == [healthy |-> healthy]
            e == Outcome(f, ServingRejection(vault), 1)
        IN  last' = IF e = NoErr
                    THEN Call("get_raft_cluster_state", "none", data, NoErr, <<>>, data)
                    ELSE Raised("get_raft_cluster_state", "none", e, <<e>>)
    /\ UNCHANGED <<cluster, clientToken>>

is_raft_cluster_healthy_except_swallowing == {"VaultError", "RequestException"}

is_raft_cluster_healthy_except == {}

\* self.get_raft_cluster_state()["healthy"]
is_raft_cluster_healthy ==
    /\ last.op = "idle"
    /\ \E healthy \in BOOLEAN, f \in Faults :
        LET data == [healthy |-> healthy]
            e == Outcome(f, ServingRejection(vault), 1)
        IN  last' = IF e = NoErr
                    THEN Call("is_raft_cluster_healthy", "none", data.healthy, NoErr, <<>>, data)
                    ELSE Handle("is_raft_cluster_healthy", "none", e, "none",
                                is_raft_cluster_healthy_except, FALSE)
    /\ UNCHANGED <<cluster, clientToken>>

remove_raft_node ==
    /\ last.op = "idle"
    /\ \E node_id \in NodeIds, f \in Faults :
        LET e == Outcome(f, ServingRejection(vault), 1)
        IN  /\ peers' = IF e = NoErr THEN sys_remove_raft_node_effect(peers, node_id) ELSE peers
            /\ last' = Handle("remove_raft_node", node_id, e, "none", {}, "none")
    /\ UNCHANGED <<vault, mounts, authMethods, auditDevices, pkiRoles, clientToken>>

\* the loop with its `return False` inside the body: only the first peer is
\* looked at
ScanFirstPeerOnly(servers, node_id) ==
    Len(servers) > 0 /\ servers[1].node_id = node_id

\* the loop of is_node_in_raft_peers over the servers of the configuration
ScanPeers(servers, node_id) ==
    LET RECURSIVE Scan(_)
        Scan(i) == IF i > Len(servers) THEN FALSE
                   ELSE IF servers[i].node_id = node_id THEN TRUE
                   ELSE Scan(i + 1)
    IN  Scan(1)

is_node_in_raft_peers ==
    /\ last.op = "idle"
    /\ \E node_id \in NodeIds, f \in Faults :
        last' = Handle("is_node_in_raft_peers", node_id,
                       Outcome(f, ServingRejection(vault), 1),
                       ScanPeers(sys_read_raft_config(peers), node_id), {}, "none")
    /\ UNCHANGED <<cluster, clientToken>>

get_num_raft_peers ==
    /\ last.op = "idle"
    /\ \E f \in Faults :
        last' = Handle("get_num_raft_peers", "none",
                       Outcome(f, ServingRejection(vault), 1),
                       Len(sys_read_raft_config(peers)), {}, "none")
    /\ UNCHANGED <<cluster, clientToken>>

\* ---------------------------------------------------------------- the run
Init ==
    /\ vault = Uninitialized
    /\ mounts = [p \in Paths |-> "none"]
    /\ authMethods = {}
    /\ auditDevices = [t \in AuditDeviceType |-> "none"]
    /\ pkiRoles = {}
    /\ peers = <<"a", "b", "c">>
    /\ clientToken = "none"
    /\ last = Idle

\* a cluster that has been initialized with one share, unsealed and elected
Serving == [state |-> "UNSEALED_ACTIVE", shares |-> 1, threshold |-> 1, progress |-> {}]

InitServing ==
    /\ vault = Serving
    /\ mounts = [p \in Paths |-> "none"]
    /\ authMethods = {}
    /\ auditDevices = [t \in AuditDeviceType |-> "none"]
    /\ pkiRoles = {}
    /\ peers = <<"a", "b", "c">>
    /\ clientToken = "none"
    /\ last = Idle

\* the lifecycle states a cluster goes through
Vaults ==
    {Uninitialized} \cup
    {v \in [state : {"SEALED", "UNSEALED_STANDBY", "UNSEALED_ACTIVE"},
            shares : 1..MaxShares, threshold : 1..MaxShares,
            progress : SUBSET (1..MaxShares)] :
        /\ v.threshold <= v.shares
        /\ v.progress \subseteq 1..v.shares
        /\ Cardinality(v.progress) < v.threshold
        /\ v.state # "SEALED" => v.progress = {}}

\* the raft configurations removals lead to
PeerLists ==
    {sys_remove_raft_node_effect(sys_remove_raft_node_effect(<<"a", "b", "c">>, x), y) :
        x \in NodeIds, y \in NodeIds}
    \cup {<<>>}

\* One call on any cluster.  A call reads and writes one part of the
\* cluster, so the clusters a call is made on vary one part at a time: the
\* lifecycle in any of its states with nothing enabled yet, and a serving
\* cluster with any engines and roles, any auth methods, any audit devices,
\* any peers, or any authentication of the client.
InitCall ==
    /\ last = Idle
    /\ \E part \in {"vault", "mounts", "authMethods", "auditDevices", "peers", "clientToken"} :
        /\ vault \in (IF part = "vault" THEN Vaults ELSE {Serving})
        /\ mounts \in (IF part = "mounts" THEN [Paths -> SecretsBackend \cup {"none"}]
                       ELSE {[p \in Paths |-> "none"]})
        /\ pkiRoles \in (IF part = "mounts"
                         THEN SUBSET {mr \in Paths \X Roles : mounts[mr[1]] = "pki"}
                         ELSE {{}})
        /\ authMethods \in (IF part = "authMethods" THEN SUBSET {"approle"} ELSE {{}})
        /\ auditDevices \in (IF part = "auditDevices" THEN [AuditDeviceType -> {"none"} \cup Paths]
                             ELSE {[t \in AuditDeviceType |-> "none"]})
        /\ peers \in (IF part = "peers" THEN PeerLists ELSE {<<"a", "b", "c">>})
        /\ clientToken \in (IF part = "clientToken" THEN {"none", "token", "approle"}
                            ELSE {"none"})

Operations ==
    \/ authenticate
    \/ is_api_available
    \/ initialize
    \/ is_initialized
    \/ unseal
    \/ is_active
    \/ enable_audit_device
    \/ enable_approle_auth_method
    \/ configure_policy
    \/ configure_approle
    \/ generate_role_secret_id
    \/ read_role_secret
    \/ enable_secrets_engine
    \/ is_intermediate_ca_set
    \/ get_intermediate_ca
    \/ generate_pki_intermediate_ca_csr
    \/ set_pki_intermediate_ca_certificate
    \/ sign_pki_certificate_signing_request
    \/ is_pki_ca_certificate_set
    \/ create_pki_charm_role
    \/ is_pki_role_created
    \/ create_snapshot
    \/ restore_snapshot
    \/ get_raft_cluster_state
    \/ is_raft_cluster_healthy
    \/ remove_raft_node
    \/ is_node_in_raft_peers
    \/ get_num_raft_peers

Next == Operations \/ LeaderElection \/ Done

Spec == Init /\ [][Next]_vars

\* the lifecycle calls on a fresh cluster
NextLifecycle ==
    \/ is_api_available
    \/ initialize
    \/ is_initialized
    \/ unseal
    \/ is_active
    \/ LeaderElection
    \/ Done

SpecLifecycle == Init /\ [][NextLifecycle]_vars

\* the access-control and secrets-engine calls on a serving cluster
NextAdmin ==
    \/ enable_audit_device
    \/ enable_approle_auth_method
    \/ configure_policy
    \/ configure_approle
    \/ generate_role_secret_id
    \/ read_role_secret
    \/ enable_secrets_engine
    \/ is_intermediate_ca_set
    \/ get_intermediate_ca
    \/ generate_pki_intermediate_ca_csr
    \/ set_pki_intermediate_ca_certificate
    \/ sign_pki_certificate_signing_request
    \/ is_pki_ca_certificate_set
    \/ create_pki_charm_role
    \/ is_pki_role_created
    \/ Done

SpecAdmin == InitServing /\ [][NextAdmin]_vars

\* the raft and snapshot calls on a serving cluster
NextRaft ==
    \/ create_snapshot
    \/ restore_snapshot
    \/ get_raft_cluster_state
    \/ is_raft_cluster_healthy
    \/ remove_raft_node
    \/ is_node_in_raft_peers
    \/ get_num_raft_peers
    \/ Done

SpecRaft == InitServing /\ [][NextRaft]_vars

\* one call of any method on any cluster
SpecCall == InitCall /\ [][Operations]_vars

\* ------------------------------------------------------- lifecycle claims
IsPrefix(s, t) == Len(s) <= Len(t) /\ \A i \in 1..Len(s) : s[i] = t[i]
Elems(s) == {s[i] : i \in 1..Len(s)}
NoDuplicates(s) == Cardinality(Elems(s)) = Len(s)
EnvFailed(c) == \E i \in 1..Len(c.errs) : c.errs[i].origin = "env"

\* C1: unseal submits the keys one at a time, in the order of the list, and
\* stops at the first submission that raises.  When a submission is rejected
\* with InvalidRequest and the seal-status query that follows is answered,
\* unseal returns normally exactly when the cluster is unsealed, and raises
\* that very rejection when the cluster is sealed.
C1_UnsealRejection ==
    last.op = "unseal" =>
        /\ IsPrefix(last.ret, last.arg)
        /\ last.errs = <<>> => last.ret = last.arg /\ last.raised = NoErr
        /\ last.errs # <<>> => last.errs[1].at = Len(last.ret)
        /\ (last.errs # <<>> /\ last.errs[1].kind = "InvalidRequest") =>
              /\ last.seen \in {"sealed", "unsealed", "failed"}
              /\ last.seen # "failed" =>
                    /\ last.seen = (IF IsUnsealed(vault) THEN "unsealed" ELSE "sealed")
                    /\ last.raised = NoErr <=> IsUnsealed(vault)
                    /\ ~IsUnsealed(vault) => last.raised = last.errs[1]

\* a key list whose second key is rejected after the first one unsealed the
\* cluster: the rejection is swallowed
C1_Witness ==
    /\ last.op = "unseal"
    /\ Len(last.ret) = 2
    /\ last.before[1].state = "SEALED"
    /\ last.errs # <<>>
    /\ last.errs[1].kind = "InvalidRequest"
    /\ last.seen = "unsealed"
    /\ last.raised = NoErr

\* the keys of the call are distinct shares handed out by initialize
ReturnedKeySubset(c) ==
    /\ NoDuplicates(c.arg)
    /\ Elems(c.arg) \subseteq 1..c.before[1].shares

\* C2: on a cluster that was initialized with (shares, threshold) and has
\* taken no key yet, an unseal call with `threshold` distinct returned keys,
\* every submission of which the cluster answers, leaves the cluster
\* unsealed; one with fewer distinct returned keys returns without raising
\* and leaves the cluster sealed.
C2_ThresholdUnseal ==
    (/\ last.op = "unseal"
     /\ last.before[1].state = "SEALED"
     /\ last.before[1].progress = {}
     /\ ReturnedKeySubset(last)
     /\ ~EnvFailed(last)) =>
        /\ Len(last.arg) = last.before[1].threshold =>
              IsUnsealed(vault) /\ last.raised = NoErr
        /\ Len(last.arg) < last.before[1].threshold =>
              vault.state = "SEALED" /\ last.raised = NoErr

C2_Witness ==
    /\ last.op = "unseal"
    /\ last.before[1].state = "SEALED"
    /\ last.before[1].progress = {}
    /\ last.before[1].threshold = 2
    /\ ReturnedKeySubset(last)
    /\ Len(last.arg) = 2
    /\ ~EnvFailed(last)
    /\ IsUnsealed(vault)

C5_HealthNeverRaises ==
    last.op \in {"is_api_available", "is_active"} =>
        /\ last.raised = NoErr
        /\ cluster = last.before
        /\ last.errs # <<>> => last.ret = FALSE

C5_Witness ==
    /\ last.op = "is_active"
    /\ IsUnsealed(vault)
    /\ last.errs # <<>>
    /\ last.errs[1].kind = "RequestException"
    /\ last.ret = FALSE
    /\ last.raised = NoErr

\* C9 as stated: on a reachable node is_active is True exactly in
\* UNSEALED_ACTIVE (False in UNSEALED_STANDBY, SEALED and UNINITIALIZED)
C9_ActiveOnlyWhenActive ==
    (last.op = "is_active" /\ last.errs = <<>>) =>
        (last.ret = TRUE <=> vault.state = "UNSEALED_ACTIVE")

\* C9, amended: on a reachable node is_active is True in UNSEALED_STANDBY as
\* in UNSEALED_ACTIVE, and False in SEALED and UNINITIALIZED: it observes the
\* unsealing, not the leader election.
C9_ActiveWhenUnsealed ==
    (last.op = "is_active" /\ last.errs = <<>>) =>
        (last.ret = TRUE <=> vault.state \in {"UNSEALED_STANDBY", "UNSEALED_ACTIVE"})

C9_Witness ==
    /\ last.op = "is_active"
    /\ last.errs = <<>>
    /\ vault.state = "UNSEALED_STANDBY"
    /\ last.ret = TRUE

\* ------------------------------------------------ administration claims
\* C7: an enable call that finds its resource enabled by an earlier call
\* with the same arguments, and that the environment does not fail, returns
\* without raising and leaves every engine, auth method and audit device as
\* it was.
C7_EnableIdempotent ==
    /\ (/\ last.op = "enable_secrets_engine"
        /\ last.before[2][last.arg[2]] = last.arg[1]
        /\ ~EnvFailed(last)) =>
            /\ last.raised = NoErr
            /\ cluster = last.before
            /\ mounts[last.arg[2]] = last.arg[1]
    /\ (/\ last.op = "enable_approle_auth_method"
        /\ "approle" \in last.before[3]
        /\ ~EnvFailed(last)) =>
            /\ last.raised = NoErr
            /\ cluster = last.before
            /\ "approle" \in authMethods
    /\ (/\ last.op = "enable_audit_device"
        /\ last.before[4][last.arg[1]] = last.arg[2]
        /\ ~EnvFailed(last)) =>
            /\ last.raised = NoErr
            /\ cluster = last.before
            /\ auditDevices[last.arg[1]] = last.arg[2]

C7_Witness ==
    /\ last.op = "enable_secrets_engine"
    /\ last.before[2][last.arg[2]] = last.arg[1]
    /\ last.errs = <<Err("InvalidRequest", 1, "cluster")>>
    /\ last.raised = NoErr
    /\ cluster = last.before

\* C10: whenever enable_secrets_engine(backend_type, path), answered by the
\* cluster, returns without raising, an engine of backend_type is mounted at
\* path, also when an earlier call mounted another backend type there.
C10_EnabledWhenReturned ==
    (last.op = "enable_secrets_engine" /\ ~EnvFailed(last) /\ last.raised = NoErr) =>
        mounts[last.arg[2]] = last.arg[1]

\* ---------------------------------------------------------- raft claims
\* C4: remove_raft_node(id), unless its request fails, does not raise and
\* leaves the peers that were there minus id, in their order: nothing
\* changes when id was no peer, and one peer less is there when it was.
\* is_node_in_raft_peers and get_num_raft_peers report the peers as they are.
C4_RemoveRaftNode ==
    /\ (last.op = "remove_raft_node" /\ last.errs = <<>>) =>
          /\ last.raised = NoErr
          /\ Elems(peers) = Elems(last.before[6]) \ {last.arg}
          /\ last.arg \notin Elems(last.before[6]) => peers = last.before[6]
          /\ last.arg \in Elems(last.before[6]) => Len(peers) = Len(last.before[6]) - 1
          /\ NoDuplicates(peers)
    /\ (last.op = "is_node_in_raft_peers" /\ last.raised = NoErr) =>
          (last.ret = TRUE <=> last.arg \in Elems(peers))
    /\ (last.op = "get_num_raft_peers" /\ last.raised = NoErr) =>
          last.ret = Cardinality(Elems(peers))

\* after b was removed from {a, b, c}, b is reported as no peer
C4_Witness ==
    /\ last.op = "is_node_in_raft_peers"
    /\ last.arg = "b"
    /\ peers = <<"a", "c">>
    /\ last.raised = NoErr
    /\ last.ret = FALSE

\* C6: is_raft_cluster_healthy returns the `healthy` of the autopilot state
\* when the query is answered, and raises the query's error when it fails.
C6_RaftHealthPropagates ==
    last.op = "is_raft_cluster_healthy" =>
        /\ last.errs = <<>> => last.raised = NoErr /\ last.ret = last.seen.healthy
        /\ last.errs # <<>> => last.raised = last.errs[1]

C6_Witness ==
    /\ last.op = "is_raft_cluster_healthy"
    /\ last.errs # <<>>
    /\ last.errs[1].kind = "RequestException"
    /\ last.raised = last.errs[1]

\* ------------------------------------------------------ error propagation
\* the calls the claim lists as swallowing the error e of the underlying call
C8_Swallows(c, e) ==
    \/ c.op \in {"is_api_available", "is_active"}
    \/ /\ c.op = "unseal"
       /\ e.kind = "InvalidRequest"
       /\ c.seen # "failed"
       /\ IsUnsealed(vault)
    \/ /\ c.op \in {"enable_audit_device", "enable_approle_auth_method", "enable_secrets_engine"}
       /\ e.kind = "InvalidRequest"
    \/ /\ c.op = "sign_pki_certificate_signing_request"
       /\ e.kind = "InvalidRequest"
    \/ /\ c.op = "is_pki_role_created"
       /\ e.kind = "InvalidPath"

\* C8: when an underlying call raises, the wrapper call raises too, and what
\* it raises is the error of its last underlying call, as that call raised
\* it, except in the listed cases, where it returns: False from
\* is_api_available, is_active and is_pki_role_created, no certificate from
\* sign_pki_certificate_signing_request.
C8_ErrorPropagation ==
    last.errs # <<>> =>
        IF C8_Swallows(last, last.errs[1])
        THEN /\ last.raised = NoErr
             /\ last.op \in {"is_api_available", "is_active", "is_pki_role_created"} =>
                   last.ret = FALSE
             /\ last.op = "sign_pki_certificate_signing_request" => last.ret = "None"
        ELSE last.raised = last.errs[Len(last.errs)]

\* a transport error inside a call that swallows request rejections
C8_Witness ==
    /\ last.op = "sign_pki_certificate_signing_request"
    /\ last.errs # <<>>
    /\ last.errs[1].kind = "RequestException"
    /\ last.raised = last.errs[1]

====
